---- MODULE Spec2Model ----
(***************************************************************************)
(* Model of slides/examples/ast_visitor_1/main.cpp: the list of source     *)
(* paths is cut into kThreadsCount contiguous chunks, one std::thread per  *)
(* chunk runs a ClangTool over its chunk and writes one line per           *)
(* translation unit into its own threaded_output_<i>.txt, main joins all   *)
(* threads and unites the files with `cat ... | sort > output.txt`.        *)
(*                                                                         *)
(* Strings are sequences of byte codes (65 = 'A', 97 = 'a', 32 = ' ',      *)
(* 47 = '/', 95 = '_'); a file is a sequence of lines, the terminating     *)
(* '\n' of a line being left implicit.                                     *)
(***************************************************************************)
EXTENDS Integers, Sequences, FiniteSets, TLC

\* ------------------------------------------------------------- bounds
\* The source fixes kThreadsCount to 4 (main.cpp:143); the run's thread
\* count is drawn from 1..MaxK so that the chunk arithmetic is exercised
\* for every divisor/remainder shape, 4 included.
MaxK == 4
\* Longest list of source paths on the command line.
MaxN == 5
\* Most translation units for which the tool delivers no AST in one run.
MaxFaults == 2

\* ------------------------------------------------- translation units
\* The files that may be named on the command line: path and the names
\* MyAstVisitor collects for it, in visiting (declaration) order.
UnitTable ==
  << [path  |-> <<100, 47, 97>>,                       \* "d/a"
      names |-> << <<90, 101, 116, 97>>,               \* "Zeta"
                   <<97, 112, 112, 108, 101>>,         \* "apple"
                   <<66, 101>> >>],                    \* "Be"
     [path  |-> <<66>>,                                \* "B"
      names |-> << >>],
     [path  |-> <<97>>,                                \* "a"
      names |-> << <<65, 98>>, <<97, 66>>,             \* "Ab", "aB"
                   <<97>> >>],                         \* "a"
     [path  |-> <<101, 47, 66>>,                       \* "e/B"
      names |-> << >>],
     [path  |-> <<99, 47, 100, 47, 97, 98>>,           \* "c/d/ab"
      names |-> << <<97, 95>>, <<97, 66>> >>] >>       \* "a_", "aB"

UnitIds == 1..Len(UnitTable)

\* The command lines tried: n consecutive files of the table, starting at
\* file s and wrapping around.
SourceList(s, n) == [p \in 1..n |-> ((s + p - 2) % Len(UnitTable)) + 1]

Range(f) == {f[x] : x \in DOMAIN f}

Min(S) == CHOOSE x \in S : \A y \in S : x <= y

\* Content left in threaded_output_<i>.txt by an earlier run of the tool.
StaleFile == << <<122>> >>                             \* "z"

VARIABLES
  kThreadsCount,  \* number of threads of the run
  sources,        \* optionsParser.getSourcePathList(), as unit ids
  broken,         \* units for which ClangTool delivers no AST (processing fails)
  mainPc,         \* position of main
  i,              \* main's loop index (spawn loop, then join loop)
  vec,            \* vec[w]: the chunk handed to thread w
  filenames_in_line, \* indices of the files named in the cat command, in order
  pc,             \* pc[w]: position of thread w
  idx,            \* idx[w]: number of units of vec[w] the tool has handled
  failed,         \* failed[w]: ClangTool's ProcessingFailed flag
  status,         \* status[w]: what tool.run returned (-1: not yet)
  buf,            \* buf[w]: lines written to the ofstream, not yet in the file
  file,           \* file[w]: content of threaded_output_<w>.txt
  merged,         \* what `cat` read from each file, in command order
  lcCollate,      \* collating locale of the `sort` process
  output,         \* content of output.txt
  exitStatus      \* main's return value (-1: still running)

vars == <<kThreadsCount, sources, broken, mainPc, i, vec, filenames_in_line,
          pc, idx, failed, status, buf, file, merged, lcCollate, output,
          exitStatus>>

\* ------------------------------------------------- MyAstConsumer
\* std::tolower in the "C" locale.
ToLower(c) == IF c \in 65..90 THEN c + 32 ELSE c

\* MyAstConsumer's constructor: filename_ is what follows the last '/'.
BaseName(filename) ==
  LET slashes == {p \in 1..Len(filename) : filename[p] = 47}
  IN  IF slashes = {} THEN filename
      ELSE LET last_slash_pos == CHOOSE p \in slashes : \A q \in slashes : q <= p
           IN  SubSeq(filename, last_slash_pos + 1, Len(filename))

\* Mutation: the comparator with <= on the sizes.
NameLessOrEqual(a, b) ==
  LET m == IF Len(a) < Len(b) THEN Len(a) ELSE Len(b)
      D == {p \in 1..m : ToLower(a[p]) # ToLower(b[p])}
  IN  IF D # {} THEN ToLower(a[Min(D)]) < ToLower(b[Min(D)])
      ELSE Len(a) <= Len(b)

\* Mutation: the comparator without std::tolower.
NameLessCaseSensitive(a, b) ==
  LET m == IF Len(a) < Len(b) THEN Len(a) ELSE Len(b)
      D == {p \in 1..m : a[p] # b[p]}
  IN  IF D # {} THEN a[Min(D)] < b[Min(D)] ELSE Len(a) < Len(b)

\* The comparator lambda of flushToFile: the first position where the
\* lower-cased characters differ decides; otherwise the shorter string.
NameLess(a, b) ==
  LET m == IF Len(a) < Len(b) THEN Len(a) ELSE Len(b)
      D == {p \in 1..m : ToLower(a[p]) # ToLower(b[p])}
  IN  IF D # {} THEN ToLower(a[Min(D)]) < ToLower(b[Min(D)])
      ELSE Len(a) < Len(b)

\* One step of the insertion sort std::sort performs on a short range:
\* x moves left past exactly the elements it is less than.
InsertName(sorted, x) ==
  LET n == Len(sorted)
      stop == {p \in 0..n : p = 0 \/ ~NameLess(x, sorted[p])}
      at == CHOOSE p \in stop : \A q \in stop : q <= p
  IN  SubSeq(sorted, 1, at) \o <<x>> \o SubSeq(sorted, at + 1, n)

RECURSIVE SortNamesFrom(_, _)
SortNamesFrom(sorted, rest) ==
  IF rest = << >> THEN sorted
  ELSE SortNamesFrom(InsertName(sorted, Head(rest)), Tail(rest))

\* std::sort(names.begin(), names.end(), <lambda>)
SortNames(names) == SortNamesFrom(<< >>, names)

RECURSIVE JoinNames(_)
JoinNames(names) ==
  IF names = << >> THEN << >>
  ELSE <<32>> \o Head(names) \o JoinNames(Tail(names))

\* Mutation: the separator is written after the file name, not before
\* each name.
FlushToFileLineSepFirst(filename_, names) ==
  IF names = << >> THEN filename_ \o <<32>>
  ELSE filename_ \o JoinNames(SortNames(names))

\* flushToFile: the line written for one translation unit.
FlushToFileLine(filename_, names) == filename_ \o JoinNames(SortNames(names))

\* HandleTranslationUnit for unit u: the visitor's names go to flushToFile.
UnitLine(u) == FlushToFileLine(BaseName(UnitTable[u].path), UnitTable[u].names)

\* The line HandleTranslationUnit writes for each unit of the table.
LineTable == [u \in UnitIds |-> UnitLine(u)]

\* ------------------------------------------------- main: the chunks
\* chunk_size = static_cast<int>(sources.size()) / kThreadsCount
ChunkSize(n, k) == n \div k

\* Mutation: the last chunk is taken to be the last chunk_size elements.
BeginIndexFromEnd(w, n, k) ==
  IF w = k - 1 /\ k > 1 THEN n - ChunkSize(n, k) ELSE w * ChunkSize(n, k)

BeginIndex(w, n, k) == w * ChunkSize(n, k)

\* Mutation: the last chunk ends like every other one, the remainder is lost.
EndIndexNoRemainder(w, n, k) == (w + 1) * ChunkSize(n, k)

EndIndex(w, n, k) == IF w = k - 1 THEN n ELSE (w + 1) * ChunkSize(n, k)

\* Mutation: the remainder goes to the first chunk instead of the last.
ChunkRemainderFirst(src, w, k) ==
  LET c == ChunkSize(Len(src), k)
      r == Len(src) - k * c
  IN  SubSeq(src, (IF w = 0 THEN 0 ELSE r + w * c) + 1, r + (w + 1) * c)

\* std::vector<std::string> vec(sources.begin() + begin_index,
\*                              sources.begin() + end_index)
Chunk(src, w, k) ==
  SubSeq(src, BeginIndex(w, Len(src), k) + 1, EndIndex(w, Len(src), k))

\* ------------------------------------------------- cat ... | sort
\* strcmp order: sort in the C/POSIX locale.
ByteLess(a, b) ==
  LET m == IF Len(a) < Len(b) THEN Len(a) ELSE Len(b)
      D == {p \in 1..m : a[p] # b[p]}
  IN  IF D # {} THEN a[Min(D)] < b[Min(D)] ELSE Len(a) < Len(b)

\* Order of a locale whose collating sequence ranks letters before their
\* case (en_US.UTF-8 and the like): letters compare case-insensitively, and
\* only lines equal up to case fall back to lower case before upper case.
FoldLess(a, b) ==
  LET m == IF Len(a) < Len(b) THEN Len(a) ELSE Len(b)
      D == {p \in 1..m : ToLower(a[p]) # ToLower(b[p])}
      E == {p \in 1..m : a[p] # b[p]}
  IN  IF D # {} THEN ToLower(a[Min(D)]) < ToLower(b[Min(D)])
      ELSE IF Len(a) # Len(b) THEN Len(a) < Len(b)
      ELSE E # {} /\ a[Min(E)] > b[Min(E)]

Locales == {"C", "en_US.UTF-8"}

\* The comparison `sort` makes under LC_COLLATE = loc.
LineLess(loc, a, b) == IF loc = "C" THEN ByteLess(a, b) ELSE FoldLess(a, b)

\* Mutation: sort -u, a line equal to one already output is dropped.
InsertLineUnique(loc, sorted, x) ==
  LET n == Len(sorted)
      stop == {p \in 0..n : p = 0 \/ ~LineLess(loc, x, sorted[p])}
      at == CHOOSE p \in stop : \A q \in stop : q <= p
  IN  IF \E p \in 1..n : sorted[p] = x THEN sorted
      ELSE SubSeq(sorted, 1, at) \o <<x>> \o SubSeq(sorted, at + 1, n)

InsertLine(loc, sorted, x) ==
  LET n == Len(sorted)
      stop == {p \in 0..n : p = 0 \/ ~LineLess(loc, x, sorted[p])}
      at == CHOOSE p \in stop : \A q \in stop : q <= p
  IN  SubSeq(sorted, 1, at) \o <<x>> \o SubSeq(sorted, at + 1, n)

RECURSIVE SortLinesFrom(_, _, _)
SortLinesFrom(loc, sorted, rest) ==
  IF rest = << >> THEN sorted
  ELSE SortLinesFrom(loc, InsertLine(loc, sorted, Head(rest)), Tail(rest))

\* sort(1): every input line is output once, in collating order.
SortLines(loc, lines) == SortLinesFrom(loc, << >>, lines)

\* cat f1 f2 ...: the files' lines, in the order the files are named.
RECURSIVE Cat(_, _)
Cat(names, files) ==
  IF names = << >> THEN << >>
  ELSE files[Head(names)] \o Cat(Tail(names), files)

Workers == 0..(kThreadsCount - 1)

\* ------------------------------------------------- initial states
Init ==
  /\ kThreadsCount \in 1..MaxK
  /\ sources \in {SourceList(s, n) : s \in UnitIds, n \in 0..MaxN}
  /\ broken \in {B \in SUBSET Range(sources) : Cardinality(B) <= MaxFaults}
  /\ mainPc = "parse"
  /\ i = 0
  /\ vec = [w \in Workers |-> << >>]
  /\ filenames_in_line = << >>
  /\ pc = [w \in Workers |-> "unspawned"]
  /\ idx = [w \in Workers |-> 0]
  /\ failed = [w \in Workers |-> FALSE]
  /\ status = [w \in Workers |-> -1]
  /\ buf = [w \in Workers |-> << >>]
  /\ file = [w \in Workers |-> StaleFile]
  /\ merged = << >>
  /\ lcCollate = "unread"
  /\ output = StaleFile
  /\ exitStatus = -1

\* ------------------------------------------------- main
\* Mutation: the return after the error message is missing.
AfterParseErrorGoesOn == "spawn"

\* Where main is after the error message of a failed parser creation.
AfterParseError == "exited"

\* CommonOptionsParser::create fails: the error is printed, main returns 1.
ParseFails ==
  /\ mainPc = "parse"
  /\ mainPc' = AfterParseError
  /\ exitStatus' = 1
  /\ UNCHANGED <<kThreadsCount, sources, broken, i, vec, filenames_in_line,
                 pc, idx, failed, status, buf, file, merged, lcCollate,
                 output>>

ParseSucceeds ==
  /\ mainPc = "parse"
  /\ mainPc' = "spawn"
  /\ UNCHANGED <<kThreadsCount, sources, broken, i, vec, filenames_in_line,
                 pc, idx, failed, status, buf, file, merged, lcCollate,
                 output, exitStatus>>

\* Mutation: every thread is given the same file.
FileNameShared(w) == 0

\* std::string("threaded_output_") + std::to_string(i) + ".txt", named here
\* by its number.
FileName(w) == w

\* Mutation: the stream is opened for appending.
OpenStreamAppend(old) == old

\* std::ofstream(filename): the file is created, or truncated if it exists.
OpenStream(old) == << >>

\* One iteration of the first loop of main: the chunk is copied, the
\* thread's file is named and opened, the thread starts.
Spawn ==
  /\ mainPc = "spawn"
  /\ i < kThreadsCount
  /\ vec' = [vec EXCEPT ![i] = Chunk(sources, i, kThreadsCount)]
  /\ filenames_in_line' = Append(filenames_in_line, FileName(i))
  /\ file' = [file EXCEPT ![FileName(i)] = OpenStream(file[FileName(i)])]
  /\ pc' = [pc EXCEPT ![i] = "run"]
  /\ IF i + 1 = kThreadsCount
       THEN mainPc' = "join" /\ i' = 0
       ELSE mainPc' = "spawn" /\ i' = i + 1
  /\ UNCHANGED <<kThreadsCount, sources, broken, idx, failed, status, buf,
                 merged, lcCollate, output, exitStatus>>

\* Mutation: join returns as soon as the thread has been started.
JoinableEarly(w) == pc[w] # "unspawned"

\* Mutation: join only returns for a thread whose tool reported success.
JoinableIfOk(w) == pc[w] = "done" /\ status[w] = 0

\* thread.join() returns once the thread function has returned.
Joinable(w) == pc[w] = "done"

\* One iteration of the second loop of main.
Join ==
  /\ mainPc = "join"
  /\ i < kThreadsCount
  /\ Joinable(i)
  /\ IF i + 1 = kThreadsCount
       THEN mainPc' = "merge" /\ i' = 0
       ELSE mainPc' = "join" /\ i' = i + 1
  /\ UNCHANGED <<kThreadsCount, sources, broken, vec, filenames_in_line, pc,
                 idx, failed, status, buf, file, merged, lcCollate, output,
                 exitStatus>>

\* system("cat <files> | sort > output.txt"); sort collates by the locale
\* of the environment the tool was started in.
Merge ==
  /\ mainPc = "merge"
  /\ \E loc \in Locales :
       /\ lcCollate' = loc
       /\ merged' = Cat(filenames_in_line, file)
       /\ output' = SortLines(loc, Cat(filenames_in_line, file))
  /\ mainPc' = "return"
  /\ UNCHANGED <<kThreadsCount, sources, broken, i, vec, filenames_in_line,
                 pc, idx, failed, status, buf, file, exitStatus>>

\* The value main returns after the merge.
MainStatus == 0

Return ==
  /\ mainPc = "return"
  /\ mainPc' = "exited"
  /\ exitStatus' = MainStatus
  /\ UNCHANGED <<kThreadsCount, sources, broken, i, vec, filenames_in_line,
                 pc, idx, failed, status, buf, file, merged, lcCollate,
                 output>>

\* ------------------------------------------------- run_tool (thread w)
\* Mutation: the tool gives up on the chunk at the first failing unit.
AfterFailureAbort(w) == Len(vec[w])

\* Mutation: the tool tries the failing unit again.
AfterFailureRetry(w) == idx[w]

\* Where ClangTool::run goes on after a unit whose processing failed.
AfterFailure(w) == idx[w] + 1

\* Mutation: the tool walks the chunk from its end.
NextUnitBackwards(w) == vec[w][Len(vec[w]) - idx[w]]

\* The source tool.run handles next: the sources in the order given.
NextUnit(w) == vec[w][idx[w] + 1]

\* tool.run reaches a unit it can process: the action's consumer gets the
\* AST, HandleTranslationUnit writes the unit's line to the stream.
HandleTranslationUnit(w) ==
  /\ pc[w] = "run"
  /\ idx[w] < Len(vec[w])
  /\ NextUnit(w) \notin broken
  /\ buf' = [buf EXCEPT ![w] = Append(@, LineTable[NextUnit(w)])]
  /\ idx' = [idx EXCEPT ![w] = @ + 1]
  /\ UNCHANGED <<kThreadsCount, sources, broken, mainPc, i, vec,
                 filenames_in_line, pc, failed, status, file, merged,
                 lcCollate, output, exitStatus>>

\* tool.run reaches a unit it cannot process: no consumer call for it.
UnitFails(w) ==
  /\ pc[w] = "run"
  /\ idx[w] < Len(vec[w])
  /\ NextUnit(w) \in broken
  /\ failed' = [failed EXCEPT ![w] = TRUE]
  /\ idx' = [idx EXCEPT ![w] = AfterFailure(w)]
  /\ UNCHANGED <<kThreadsCount, sources, broken, mainPc, i, vec,
                 filenames_in_line, pc, status, buf, file, merged, lcCollate,
                 output, exitStatus>>

\* The stream's buffer is written out before the explicit flush.
Spill(w) ==
  /\ pc[w] = "run"
  /\ buf[w] # << >>
  /\ file' = [file EXCEPT ![FileName(w)] = @ \o buf[w]]
  /\ buf' = [buf EXCEPT ![w] = << >>]
  /\ UNCHANGED <<kThreadsCount, sources, broken, mainPc, i, vec,
                 filenames_in_line, pc, idx, failed, status, merged,
                 lcCollate, output, exitStatus>>

\* Mutation: the flush is missing, buffered lines stay in the stream.
NotFlushed(w) == [file |-> file[FileName(w)], buf |-> buf[w]]

\* The file and the stream buffer of thread w after out->flush().
Flushed(w) == [file |-> file[FileName(w)] \o buf[w], buf |-> << >>]

\* Mutation: the tool's loop expects at least one source.
ToolDoneAfterWork(w) == idx[w] >= Len(vec[w]) /\ idx[w] > 0

\* tool.run has no source left to handle.
ToolDone(w) == idx[w] >= Len(vec[w])

\* tool.run has gone through the chunk and returns, non-zero if the
\* processing of some unit failed; run_tool prints the status, flushes the
\* stream and returns, which ends the thread.
ToolReturns(w) ==
  /\ pc[w] = "run"
  /\ ToolDone(w)
  /\ status' = [status EXCEPT ![w] = IF failed[w] THEN 1 ELSE 0]
  /\ file' = [file EXCEPT ![FileName(w)] = Flushed(w).file]
  /\ buf' = [buf EXCEPT ![w] = Flushed(w).buf]
  /\ pc' = [pc EXCEPT ![w] = "done"]
  /\ UNCHANGED <<kThreadsCount, sources, broken, mainPc, i, vec,
                 filenames_in_line, idx, failed, merged, lcCollate, output,
                 exitStatus>>

Next ==
  \/ ParseFails
  \/ ParseSucceeds
  \/ Spawn
  \/ Join
  \/ Merge
  \/ Return
  \/ \E w \in Workers : HandleTranslationUnit(w)
  \/ \E w \in Workers : UnitFails(w)
  \/ \E w \in Workers : Spill(w)
  \/ \E w \in Workers : ToolReturns(w)

Spec == Init /\ [][Next]_vars

\* ------------------------------------------------- scheduling
\* A step of thread w: tool.run handles or fails a unit, the stream spills,
\* or run_tool returns.
ThreadStep(w) ==
  /\ w \in Workers
  /\ \/ HandleTranslationUnit(w)
     \/ UnitFails(w)
     \/ Spill(w)
     \/ ToolReturns(w)

\* A step of the main thread in its own code.
MainStep == ParseFails \/ ParseSucceeds \/ Spawn \/ Join \/ Return

\* system() returns to main: the step Merge takes, told by main's position.
SystemReturns == mainPc = "merge" /\ mainPc' = "return"

\* Most threads and sources in the runs checked for progress.
LiveMaxK == 3
LiveMaxN == 4

FairInit ==
  /\ Init
  /\ kThreadsCount <= LiveMaxK
  /\ Len(sources) <= LiveMaxN

\* The main thread and every std::thread get processor time while they can
\* run, tool.run returns from every unit, and the shell command ends.
FairSpec ==
  /\ FairInit
  /\ [][Next]_vars
  /\ WF_vars(MainStep)
  /\ WF_mainPc(SystemReturns)
  /\ \A w \in 0..(MaxK - 1) : WF_vars(ThreadStep(w))

\* ================================================= properties
\* Number of positions of seq that hold x.
Count(x, seq) == Cardinality({p \in DOMAIN seq : seq[p] = x})

\* Same elements with the same multiplicities.
SameBag(s, t) ==
  \A x \in Range(s) \cup Range(t) : Count(x, s) = Count(x, t)

\* The lines of the units of a list that the tool can process, in list order.
RECURSIVE OkLines(_)
OkLines(units) ==
  IF units = << >> THEN << >>
  ELSE (IF Head(units) \in broken THEN << >> ELSE <<LineTable[Head(units)]>>)
       \o OkLines(Tail(units))

\* vec[0] \o vec[1] \o ... \o vec[k-1]
RECURSIVE ConcatUpTo(_, _)
ConcatUpTo(f, k) == IF k = 0 THEN << >> ELSE ConcatUpTo(f, k - 1) \o f[k - 1]

AllSpawned == mainPc \in {"join", "merge", "return"} \/ exitStatus = 0

MergeDone == lcCollate # "unread"

\* For every list length and thread count, every position of the list lies
\* in the index range of exactly one chunk, and the ranges are in bounds.
IndexRangesTile ==
  \A n \in 0..MaxN : \A k \in 1..MaxK :
    /\ \A w \in 0..(k - 1) :
         0 <= BeginIndex(w, n, k) /\ BeginIndex(w, n, k) <= EndIndex(w, n, k)
           /\ EndIndex(w, n, k) <= n
    /\ \A p \in 1..n :
         Cardinality({w \in 0..(k - 1) :
            BeginIndex(w, n, k) < p /\ p <= EndIndex(w, n, k)}) = 1

\* C1: once the K threads are started, the chunks concatenated in thread
\* order are the source list itself, every position of the list lying in
\* the index range of exactly one chunk; while threads are being started,
\* the chunks handed out so far are a prefix of the list.
PartitionComplete ==
  LET started == IF AllSpawned THEN kThreadsCount
                 ELSE IF mainPc = "spawn" THEN i ELSE 0
      chunks == ConcatUpTo(vec, started)
  IN  /\ chunks = SubSeq(sources, 1, Len(chunks))
      /\ AllSpawned => chunks = sources
      /\ IndexRangesTile

\* C1 witness: five sources on two threads, all started.
PartitionCompleteWitness ==
  /\ mainPc = "join"
  /\ Len(sources) = 5
  /\ kThreadsCount = 2

\* C2: threads 0..K-2 get floor(N/K) units each, the last thread gets the
\* remaining N - (K-1)*floor(N/K); five units on two threads are split
\* into the first two and the last three.
PartitionSizing ==
  LET n == Len(sources)
      k == kThreadsCount
  IN  AllSpawned =>
        /\ \A w \in 0..(k - 2) : Len(vec[w]) = n \div k
        /\ Len(vec[k - 1]) = n - (k - 1) * (n \div k)
        /\ (n = 5 /\ k = 2) =>
             /\ vec[0] = <<sources[1], sources[2]>>
             /\ vec[1] = <<sources[3], sources[4], sources[5]>>

\* C2 witness: N = 5, K = 2, every thread has finished its chunk.
PartitionSizingWitness ==
  /\ mainPc = "merge"
  /\ Len(sources) = 5
  /\ kThreadsCount = 2
  /\ Len(vec[0]) = 2
  /\ Len(vec[1]) = 3

\* C3: from the moment main is about to run the merge command, every
\* thread has handled its whole chunk, got the tool's status, flushed and
\* ended, and what cat read from the files is what the files hold for good:
\* the lines of all units of the chunk that could be processed.
JoinBarrier ==
  (mainPc = "merge" \/ MergeDone) =>
    /\ \A w \in Workers :
         /\ pc[w] = "done"
         /\ idx[w] = Len(vec[w])
         /\ status[w] # -1
         /\ buf[w] = << >>
         /\ file[w] = OkLines(vec[w])
    /\ MergeDone => merged = ConcatUpTo(file, kThreadsCount)

\* C3 witness: the merge has run over the files of three threads that all
\* wrote lines.
JoinBarrierWitness ==
  /\ MergeDone
  /\ kThreadsCount >= 3
  /\ Cardinality({w \in Workers : file[w] # << >>}) >= 3

\* C4: output.txt is determined by the source list, the analysis results
\* and the collating locale alone: it is what sorting the lines of the
\* processable units, taken in command-line order, gives, whatever the
\* interleaving of the threads was (and whatever K is).
Deterministic ==
  MergeDone => output = SortLines(lcCollate, OkLines(sources))

\* C4 witness: a merged run of four threads over five sources.
DeterministicWitness ==
  /\ MergeDone
  /\ kThreadsCount = 4
  /\ Len(sources) = 5
  /\ Len(output) >= 4
\* C5 (as claimed): the lines of output.txt are in non-decreasing byte-wise
\* order of their full text, whatever file each line came from.
ReportByteSorted ==
  MergeDone =>
    \A p \in 1..(Len(output) - 1) : ~ByteLess(output[p + 1], output[p])

\* C6: output.txt holds one line per unit the tool could process and, as a
\* multiset of lines, exactly the lines of the K thread files: nothing is
\* lost, repeated or added by the merge, equal lines are all kept.
ReportIsUnionOfSinks ==
  MergeDone =>
    /\ SameBag(output, ConcatUpTo(file, kThreadsCount))
    /\ Len(output) = Len(ConcatUpTo(file, kThreadsCount))
    /\ Len(output) =
         Cardinality({p \in DOMAIN sources : sources[p] \notin broken})
    /\ \A u \in Range(sources) \ broken :
         Count(LineTable[u], output) >=
           Cardinality({p \in DOMAIN sources : sources[p] = u})

\* C6 witness: two units gave the same line and output.txt holds it twice.
ReportIsUnionOfSinksWitness ==
  /\ MergeDone
  /\ \E p, q \in DOMAIN output : p < q /\ output[p] = output[q]
  /\ \E v, w \in Workers : v # w /\ file[v] # << >> /\ file[w] # << >>

\* The words of a line, split at spaces.
RECURSIVE Words(_)
Words(line) ==
  LET sp == {p \in 1..Len(line) : line[p] = 32}
  IN  IF sp = {} THEN <<line>>
      ELSE <<SubSeq(line, 1, Min(sp) - 1)>>
           \o Words(SubSeq(line, Min(sp) + 1, Len(line)))

Fold(str) == [p \in 1..Len(str) |-> ToLower(str[p])]

\* a is before b in case-insensitive lexicographic order, a proper prefix
\* being before its extensions.
FoldedBefore(a, b) ==
  LET fa == Fold(a)
      fb == Fold(b)
  IN  \/ \E p \in 1..Len(a) :
           /\ p <= Len(b)
           /\ \A q \in 1..(p - 1) : fa[q] = fb[q]
           /\ fa[p] < fb[p]
      \/ Len(a) < Len(b) /\ \A q \in 1..Len(a) : fa[q] = fb[q]

\* facts is a permutation of names that never decreases in the order above.
NormalFormOf(facts, names) ==
  /\ SameBag(facts, names)
  /\ Len(facts) = Len(names)
  /\ \A p, q \in DOMAIN facts : p < q => ~FoldedBefore(facts[q], facts[p])

\* The record of unit u: its display name, then the normal form of the
\* names found in u.
RecordOf(line, u) ==
  /\ Head(Words(line)) = BaseName(UnitTable[u].path)
  /\ NormalFormOf(Tail(Words(line)), UnitTable[u].names)

\* Names a visitor may collect, and the lists of at most MaxNames of them.
NamePool ==
  { <<97>>, <<65>>, <<97, 66>>, <<65, 98>>, <<97, 95>>, <<66>>, <<90, 97>> }

MaxNames == 3

NameLists == UNION {[1..n -> NamePool] : n \in 0..MaxNames}

\* What std::sort with the comparator makes of every list of names, and of
\* the names of every unit of the table.
SortGivesNormalForm ==
  /\ \A names \in NameLists : NormalFormOf(SortNames(names), names)
  /\ \A u \in UnitIds : RecordOf(LineTable[u], u)
  /\ SortNames(<< <<90, 101, 116, 97>>, <<97, 112, 112, 108, 101>>,
                  <<66, 101>> >>)
       = << <<97, 112, 112, 108, 101>>, <<66, 101>>, <<90, 101, 116, 97>> >>

\* The units of the chunk of thread w handled so far that gave a record.
Recorded(w) ==
  SelectSeq(SubSeq(vec[w], 1, idx[w]), LAMBDA u : u \notin broken)

\* C7: at any time, the lines thread w has written are, one for one and in
\* order, the records of the units of its chunk it has processed, each
\* made of that unit's names alone, sorted case-insensitively with a
\* prefix before its extensions; ["Zeta","apple","Be"] is written as
\* "apple Be Zeta".
FactsNormalized ==
  /\ \A w \in Workers :
       pc[w] # "unspawned" =>
         LET sink == file[w] \o buf[w]
         IN  /\ Len(sink) = Len(Recorded(w))
             /\ \A p \in DOMAIN sink : sink[p] = LineTable[Recorded(w)[p]]
  /\ SortGivesNormalForm

\* C7 witness: a thread has written the records of two units, among them
\* the one with the names Zeta, apple, Be.
FactsNormalizedWitness ==
  \E w \in Workers :
    /\ pc[w] # "unspawned"
    /\ Len(file[w] \o buf[w]) >= 2
    /\ \E p \in 1..Len(Recorded(w)) : Recorded(w)[p] = 1
FailureExitsNonZero ==
  (mainPc = "exited" /\ \E w \in Workers : failed[w] \/ status[w] > 0)
    => exitStatus # 0

\* C10: a thread whose tool ends non-zero leaves the others alone: while
\* a thread has failed, every started thread that has not ended can take
\* its next step and main is never stuck in the join loop once the thread
\* it waits for has ended; every thread that has ended holds in its file
\* the lines of all processable units of its own chunk; and after the
\* merge all K threads have ended and output.txt includes every line of
\* the chunks that ended with status 0.
FailureIsolated ==
  /\ (\E w \in Workers : failed[w]) =>
       /\ \A v \in Workers :
            pc[v] = "run" =>
              \/ idx[v] < Len(vec[v]) /\ vec[v][idx[v] + 1] \notin broken
              \/ ENABLED UnitFails(v)
              \/ ENABLED ToolReturns(v)
       /\ (mainPc = "join" /\ pc[i] = "done") => ENABLED Join
  /\ \A w \in Workers :
       pc[w] = "done" =>
         /\ idx[w] = Len(vec[w])
         /\ file[w] = OkLines(vec[w])
         /\ status[w] = 0 => Len(file[w]) = Len(vec[w])
  /\ MergeDone =>
       /\ \A w \in Workers : pc[w] = "done"
       /\ \A x \in Range(output) \cup Range(ConcatUpTo(file, kThreadsCount)) :
            Count(x, output) >=
              Count(x, ConcatUpTo([w \in Workers |->
                          IF status[w] = 0 THEN file[w] ELSE << >>],
                        kThreadsCount))

\* C10 witness: one thread's whole chunk failed, two other threads ended
\* with status 0 and their lines are in output.txt.
FailureIsolatedWitness ==
  /\ mainPc = "exited"
  /\ MergeDone
  /\ \E w \in Workers :
       /\ status[w] = 1
       /\ Len(vec[w]) >= 1
       /\ file[w] = << >>
  /\ Cardinality({w \in Workers : status[w] = 0 /\ file[w] # << >>}) >= 2
  /\ Len(output) >= 2
EmptyFactsLine ==
  /\ \A u \in UnitIds :
       UnitTable[u].names = << >> =>
         /\ LineTable[u] = BaseName(UnitTable[u].path)
         /\ \A p \in DOMAIN LineTable[u] : LineTable[u][p] # 32
  /\ \A w \in Workers : \A p \in 1..Len(buf[w]) : buf[w][p] # << >>
  /\ MergeDone =>
       \A x \in {BaseName(UnitTable[u].path) : u \in UnitIds} :
         Count(x, output) =
           Cardinality({p \in DOMAIN sources :
              /\ sources[p] \notin broken
              /\ LineTable[sources[p]] = x})

\* C12 witness: output.txt holds the line "B" of a unit without names
\* next to a line with names.
EmptyFactsLineWitness ==
  /\ MergeDone
  /\ 2 \in Range(sources) \ broken
  /\ Count(<<66>>, output) = 1
  /\ Len(output) >= 2

\* C13 (as claimed): five sources on two threads are split into the first
\* three and the last two.
FiveOnTwoThreeTwo ==
  (AllSpawned /\ Len(sources) = 5 /\ kThreadsCount = 2) =>
    /\ vec[0] = SubSeq(sources, 1, 3)
    /\ vec[1] = SubSeq(sources, 4, 5)

\* C13 (amended): five sources [a,b,c,d,e] on two threads are split into
\* [a,b] for thread 0 and [c,d,e] for thread 1.
FiveOnTwoTwoThree ==
  /\ (mainPc = "spawn" /\ i = 1 /\ Len(sources) = 5 /\ kThreadsCount = 2) =>
       vec[0] = SubSeq(sources, 1, 2)
  /\ (AllSpawned /\ Len(sources) = 5 /\ kThreadsCount = 2) =>
       /\ vec[0] = SubSeq(sources, 1, 2)
       /\ vec[1] = SubSeq(sources, 3, 5)

\* C13 witness: both threads of a run over five sources are started.
FiveOnTwoWitness ==
  /\ AllSpawned
  /\ Len(sources) = 5
  /\ kThreadsCount = 2
  /\ Len(vec[0]) = 2
  /\ Len(vec[1]) = 3
  /\ pc[0] # "unspawned"
  /\ pc[1] # "unspawned"
\* The threads main has started.
Started == {w \in Workers : pc[w] # "unspawned"}

\* The lines of the records of the units thread w has handled, in order.
RecordedLines(w) == [p \in 1..Len(Recorded(w)) |-> LineTable[Recorded(w)[p]]]

SinksPrivateInv ==
  LET n == Len(sources)
      k == kThreadsCount
  IN  /\ Len(filenames_in_line) = Cardinality(Started)
      /\ AllSpawned => Cardinality(Started) = k
      /\ \A p \in DOMAIN filenames_in_line :
           /\ filenames_in_line[p] = FileName(p - 1)
           /\ p - 1 \in Started
           /\ \A q \in DOMAIN filenames_in_line :
                p # q => filenames_in_line[p] # filenames_in_line[q]
      /\ \A w \in Started :
           /\ vec[w] = SubSeq(sources, BeginIndex(w, n, k) + 1,
                              EndIndex(w, n, k))
           /\ \A v \in Started :
                v < w => EndIndex(v, n, k) <= BeginIndex(w, n, k)
           /\ file[w] \o buf[w] = RecordedLines(w)
      /\ \A w \in Workers \ Started :
           file[w] = StaleFile /\ buf[w] = << >>

SinksPrivateStep ==
  /\ Cardinality({w \in Workers : file'[w] # file[w]}) <= 1
  /\ \A w \in Workers :
       file'[w] # file[w] =>
         \/ /\ mainPc = "spawn"
            /\ i = w
            /\ pc[w] = "unspawned"
            /\ file'[w] = << >>
         \/ /\ pc[w] = "run"
            /\ file'[w] = file[w] \o buf[w]
            /\ buf'[w] = << >>
            /\ mainPc' = mainPc
            /\ \A v \in Workers \ {w} :
                 buf'[v] = buf[v] /\ idx'[v] = idx[v] /\ pc'[v] = pc[v]
  /\ mainPc = "merge" => file' = file /\ buf' = buf
  /\ mainPc \in {"return", "exited"} => file' = file

\* C14: main starts exactly K threads, thread w on its own index range of
\* the source list and on its own file, which is empty when the thread
\* starts; at any time a started thread's file and stream hold the lines
\* that thread wrote and nothing else, a step changes at most one file,
\* only a step of thread w (or the opening of its stream) changes file w,
\* and the merge command changes no thread file.
SinksPrivate == []SinksPrivateInv /\ [][SinksPrivateStep]_vars

\* C14 witness: four threads are started, three files hold lines, and the
\* merge has run.
SinksPrivateWitness ==
  /\ MergeDone
  /\ kThreadsCount = 4
  /\ Len(filenames_in_line) = 4
  /\ Cardinality({w \in Workers : file[w] # << >>}) >= 3

ShardOrderInv ==
  \A w \in Started :
    /\ idx[w] \in 0..Len(vec[w])
    /\ file[w] \o buf[w] = RecordedLines(w)
    /\ \E b \in 0..Len(sources) :
         vec[w] = SubSeq(sources, b + 1, b + Len(vec[w]))

ShardOrderStep ==
  \A w \in Workers :
    LET sink == file[w] \o buf[w]
        sinkAfter == file'[w] \o buf'[w]
    IN  /\ idx'[w] # idx[w] => pc[w] = "run" /\ idx'[w] = idx[w] + 1
        /\ \/ sinkAfter = sink
           \/ pc[w] = "unspawned" /\ sinkAfter = << >>
           \/ /\ idx'[w] = idx[w] + 1
              /\ vec[w][idx[w] + 1] \notin broken
              /\ sinkAfter = Append(sink, LineTable[vec[w][idx[w] + 1]])

\* C15: a thread goes through its chunk one unit at a time in the order of
\* the chunk, which is the order of the command line; each step that
\* writes appends the line of the very next unit, so the thread's lines
\* are at any time in the order of their units.
ShardOrder == []ShardOrderInv /\ [][ShardOrderStep]_vars

\* C15 witness: a thread has handled three units with different lines.
ShardOrderWitness ==
  \E w \in Workers :
    /\ idx[w] = 3
    /\ Len(file[w] \o buf[w]) = 3
    /\ Cardinality(Range(file[w] \o buf[w])) = 3

\* C16: with fewer sources than threads, all threads but the last get an
\* empty chunk; a thread with an empty chunk handles no unit, writes
\* nothing, can return at once and returns 0; main's join is not held up
\* by it; and output.txt is made of the lines of the last chunk alone.
EmptyShard ==
  LET k == kThreadsCount
  IN  /\ (AllSpawned /\ Len(sources) < k) =>
           /\ \A w \in 0..(k - 2) : vec[w] = << >>
           /\ vec[k - 1] = sources
      /\ \A w \in Started :
           vec[w] = << >> =>
             /\ idx[w] = 0
             /\ buf[w] = << >>
             /\ file[w] = << >>
             /\ ~failed[w]
             /\ pc[w] = "run" => ENABLED ToolReturns(w)
             /\ pc[w] = "done" => status[w] = 0
      /\ (mainPc = "join" /\ vec[i] = << >> /\ pc[i] = "done") => ENABLED Join
      /\ (MergeDone /\ Len(sources) < k) =>
           /\ \A w \in Workers : pc[w] = "done"
           /\ merged = OkLines(vec[k - 1])
           /\ output = SortLines(lcCollate, OkLines(vec[k - 1]))

\* C16 witness: two sources on four threads; the merge has run and
\* output.txt holds the two lines of the last chunk.
EmptyShardWitness ==
  /\ MergeDone
  /\ kThreadsCount = 4
  /\ Len(sources) = 2
  /\ \A w \in 0..2 : vec[w] = << >> /\ pc[w] = "done" /\ status[w] = 0
  /\ Len(vec[3]) = 2
  /\ Len(output) = 2

\* C17: when the options parser cannot be created, main has returned 1
\* without starting a thread: no file was named or opened, no unit was
\* handled, the merge command was not run and output.txt is untouched;
\* and main never goes on to start threads with that status.
ConfigErrorFatal ==
  /\ exitStatus = 1 =>
       /\ mainPc = "exited"
       /\ Started = {}
       /\ filenames_in_line = << >>
       /\ \A w \in Workers :
            /\ vec[w] = << >>
            /\ idx[w] = 0
            /\ ~failed[w]
            /\ status[w] = -1
            /\ buf[w] = << >>
            /\ file[w] = StaleFile
       /\ ~MergeDone
       /\ merged = << >>
       /\ output = StaleFile
  /\ mainPc = "exited" => exitStatus \in {0, 1}
  /\ (mainPc = "exited" /\ ~MergeDone) => exitStatus = 1

\* C17 witness: main has returned 1 on a command line that names sources.
ConfigErrorFatalWitness ==
  /\ mainPc = "exited"
  /\ exitStatus = 1
  /\ Len(sources) >= 1
  /\ kThreadsCount = 4
\* A running thread can always take a step of its own: it waits for no
\* other thread.
NoWorkerWaits ==
  \A w \in Workers :
    pc[w] = "run" => idx[w] < Len(vec[w]) \/ ENABLED ToolReturns(w)

MergeOnceStep ==
  /\ (lcCollate' # lcCollate \/ merged' # merged \/ output' # output) =>
       /\ mainPc = "merge"
       /\ lcCollate = "unread"
       /\ lcCollate' # "unread"
  /\ (mainPc' = "merge" /\ mainPc # "merge") => lcCollate = "unread"
  /\ mainPc = "merge" => lcCollate' # "unread" /\ mainPc' = "return"

\* C18: when every thread gets to run and the tool returns from every
\* unit, a run whose parser was created gets past the join loop to the
\* merge command, runs it exactly once and exits with the merge done; a
\* running thread is never held up by another thread.
PipelineTerminates ==
  /\ (mainPc = "spawn") ~> (mainPc = "merge")
  /\ (mainPc = "spawn") ~> (mainPc = "exited" /\ MergeDone)
  /\ (mainPc = "merge") ~> [](mainPc = "exited")
  /\ []NoWorkerWaits
  /\ [][MergeOnceStep]_vars

\* C18 witness: a run of three threads, one of which met a failing unit,
\* has merged and exited.
PipelineTerminatesWitness ==
  /\ mainPc = "exited"
  /\ MergeDone
  /\ kThreadsCount = 3
  /\ Len(sources) = 4
  /\ \E w \in Workers : failed[w]
  /\ \A w \in Workers : pc[w] = "done"
\* The orders in which a visitor could have collected the given names.
CollectionOrders(names) ==
  {perm \in [1..Len(names) -> Range(names)] : SameBag(perm, names)}

\* The lines flushToFile writes for unit u over all collection orders.
PermLines ==
  [u \in UnitIds |->
     {FlushToFileLine(BaseName(UnitTable[u].path), perm) :
        perm \in CollectionOrders(UnitTable[u].names)}]

\* C19 (as claimed): the line written for a unit is the same for every
\* order in which the unit's names could have been collected, names that
\* differ only in letter case included.
OrderIndependent ==
  \A w \in Started :
    \A p \in 1..Len(Recorded(w)) :
      PermLines[Recorded(w)[p]] = {(file[w] \o buf[w])[p]}

\* Strings over a few characters, up to a length.
MaxStrLen == 2

Alphabet == {65, 97, 66}

Strings == UNION {[1..n -> Alphabet] : n \in 0..MaxStrLen}

\* Neither string is before the other.
Equivalent(a, b) == ~NameLess(a, b) /\ ~NameLess(b, a)

StrictWeakOrder ==
  /\ \A a \in Strings : ~NameLess(a, a)
  /\ \A a, b \in Strings : NameLess(a, b) => ~NameLess(b, a)
  /\ \A a, b, c \in Strings :
       /\ (NameLess(a, b) /\ NameLess(b, c)) => NameLess(a, c)
       /\ (Equivalent(a, b) /\ Equivalent(b, c)) => Equivalent(a, c)
  /\ \A a, b \in Strings :
       Equivalent(a, b) <=> (Len(a) = Len(b) /\ Fold(a) = Fold(b))

\* C20: the comparator of flushToFile is a strict weak ordering: no string
\* is before itself, before is asymmetric and transitive, being unordered
\* is transitive, and two strings are unordered exactly when they have the
\* same length and the same lower-cased characters; so in every line
\* written no name is before a name to its left.
ComparatorStrictWeak ==
  /\ StrictWeakOrder
  /\ \A w \in Started :
       \A p \in 1..Len(file[w] \o buf[w]) :
         LET names == Tail(Words((file[w] \o buf[w])[p]))
         IN  \A x, y \in DOMAIN names :
               x < y => ~NameLess(names[y], names[x])

\* C20 witness: a line holds "a", then the two unordered names "Ab" and
\* "aB" next to each other.
ComparatorStrictWeakWitness ==
  \E w \in Started :
    \E p \in 1..Len(file[w] \o buf[w]) :
      LET names == Tail(Words((file[w] \o buf[w])[p]))
      IN  /\ Len(names) = 3
          /\ names[2] # names[3]
          /\ Equivalent(names[2], names[3])
          /\ NameLess(names[1], names[2])
====
